---- MODULE Spec2Model ----
(***************************************************************************)
(* Model of the request-admission engine of backend/rate_limiter.py:       *)
(* TokenBucket and RateLimiter (check_rate_limit, reset_ip, the cleanup    *)
(* thread).                                                                *)
(*                                                                         *)
(* Time.  time.time() and datetime.now() both read the wall clock; the     *)
(* model has one clock, now, counted in ticks of half a second, and every  *)
(* clock read of one call returns the same value.  Floats are modelled as  *)
(* exact rationals: a token count is kept as a number of half tokens       *)
(* (TokenUnit of them make one token), so that the refill                  *)
(* elapsed * refill_rate, with a rate of r tokens per second, adds r half  *)
(* tokens per tick and can be fractional.                                  *)
(*                                                                         *)
(* Scale.  The windows and thresholds that the code hard-codes (60 s,      *)
(* 10 s, 3600 s, 1000 records, 100 and 20 requests) are kept in their      *)
(* order but scaled down; each scaled definition names the code's value.   *)
(* The values the code reads from its configuration (rates, burst size,    *)
(* quotas, thresholds, block duration, whitelist) are drawn in Init from   *)
(* Configs, as _load_config draws them from the configuration file.        *)
(*                                                                         *)
(* Specifications.  Spec and SpecPair: the calls one after the other, each *)
(* a single step, under a clock that never goes back.  SpecClock: the same *)
(* under a clock that can be set back.  SpecThreads: check_rate_limit run  *)
(* by concurrent worker threads, cut at the points where the code holds no *)
(* lock.  SpecLoad: the calls after a construction from each kind of       *)
(* configuration source.  SpecBlocks: two identities under settings that   *)
(* block at the second request of an instant.  SpecSlow: one identity that *)
(* asks for the expensive resources only.  SpecSustained: one identity     *)
(* that sends more requests than its history can hold.  SpecStats: two     *)
(* threads, one call each, cut between the read and the write of the       *)
(* request counter.  SpecReclaim: the cleanup thread, cut inside its pass,  *)
(* beside one identity's calls.  SpecUnswept: the engine beside a second   *)
(* one that is given the same calls and never cleaned.  SpecLocks and      *)
(* SpecLocksFair: the threads cut at their `with` statements, the stores   *)
(* left out.  SpecOverlap: the worker threads under a clock that moves     *)
(* while their calls are in flight.                                        *)
(***************************************************************************)
EXTENDS Integers, Sequences, FiniteSets, TLC

VARIABLES
    now,              \* the wall clock, in ticks
    config,           \* RateLimiter.config, fixed at construction
    ip_buckets,       \* RateLimiter.ip_buckets: ip -> TokenBucket
    request_history,  \* RateLimiter.request_history: key -> deque
    blocked_ips,      \* RateLimiter.blocked_ips: ip -> expiry
    stats,            \* RateLimiter.stats
    last,             \* what the latest check_rate_limit / reset_ip call
                      \* returned; released: it was reset_ip of an identity
                      \* under a block in force, or that identity's check
                      \* straight after it; purged: it was a check, made in
                      \* one step, in which _is_blocked found the identity's
                      \* entry expired and deleted it (observations)
    admits,           \* per window key: the times, within the last minute, at
                      \* which _check_endpoint_limit returned True (observation)
    run,              \* per identity: the requests it has made since it was
                      \* fresh, while all at one instant and to one resource
                      \* without quota (observation)
    threads,          \* per worker thread: where its check_rate_limit call
                      \* stands, and the locals of the call
    consumed,         \* per identity: the consume() calls of worker threads
                      \* that returned True (observation)
    unswept           \* the stores as the same calls at the same times leave
                      \* them when the cleanup thread never runs, and whether
                      \* every call so far returned the same there (same);
                      \* kept up in SpecUnswept only (observation)

vars == <<now, config, ip_buckets, request_history, blocked_ips, stats, last,
          admits, run, threads, consumed, unswept>>

----------------------------------------------------------------------------
(* Bounds of the exploration. *)

MaxTime == 6
MaxRequests == 4

(* Ticks per second, which is also the number of token units per token. *)
TokenUnit == 2

(* Windows hard-coded in the source, in ticks. *)
BurstWindow == 2       \* 1 s (now - 1), as in the code
ScanWindow == 3        \* code: 10 s (now - 10), scaled
MinuteWindow == 4      \* code: 60 s (now - 60), scaled
Retention == 5         \* code: 3600 s (now - 3600), scaled

(* Counts hard-coded in the source. *)
HistoryCap == 4        \* code: deque(maxlen=1000), scaled
SlowThreshold == 3     \* code: len(recent_minute) > 100, scaled
ScanThreshold == 1     \* code: len(unique_endpoints) > 20, scaled

Search == "/api/knowledge/search"
Logs == "/api/logs/recent"
Status == "/api/status"
Endpoints == {Search, Logs, Status}
SlowEndpoints == {Search, Logs}

Local == "127.0.0.1"
IpA == "1.2.3.4"
IpB == "11.2.3.4"
IPs == {IpA, IpB, Local}

(* The requests and resets the exploration draws.  Spec: one identity on a *)
(* quota'd and a free endpoint beside the whitelisted one.  SpecPair: the   *)
(* same identity beside a second one, whose identifier contains the first.  *)
Requests == ({IpA} \X {Search, Status}) \cup {<<Local, Search>>}
ResetTargets == {IpA}

PairRequests == {<<IpA, Status>>, <<IpB, Status>>}
PairResetTargets == {IpA, IpB}

NoLimit == 0   \* endpoint_limits.get(endpoint) is None

(* The configurations an engine is constructed from; block_duration is in  *)
(* ticks, ip_rate_limit in tokens per second.  Throttling: a small bucket  *)
(* under high thresholds.  Escalating: a block threshold below the         *)
(* bucket's capacity.  Bursty: a burst threshold equal to the capacity and *)
(* a refill of one token in less than a second.                            *)
Throttling ==
    [ip_rate_limit |-> 1, ip_burst |-> 2,
     endpoint_limits |-> (Search :> 2) @@ (Logs :> 1) @@ (Status :> NoLimit),
     block_threshold |-> 4, block_duration |-> 5, burst_threshold |-> 3,
     whitelist |-> {Local},
     enable_pattern_detection |-> TRUE,
     enable_distributed_attack_detection |-> TRUE,
     enable_slowloris_protection |-> TRUE]

Escalating ==
    [Throttling EXCEPT !.ip_rate_limit = 2, !.block_threshold = 1]

Bursty ==
    [Throttling EXCEPT !.ip_rate_limit = 2, !.burst_threshold = 2]

Configs == {Throttling, Escalating, Bursty}

(* Strict: a bucket of one token under a block threshold of one record, so *)
(* that the second request of an instant blocks its sender.                *)
Strict ==
    [Escalating EXCEPT !.ip_burst = 1]

Min(a, b) == IF a <= b THEN a ELSE b

----------------------------------------------------------------------------
(* TokenBucket *)

NewBucket(capacity, refill_rate, t) ==
    [capacity |-> capacity, refill_rate |-> refill_rate,
     tokens |-> capacity * TokenUnit, last_refill |-> t]

(* Variants of _refill with a slip: no clamp to the capacity; last_refill   *)
(* advanced before the elapsed time is taken.                              *)
RefillNoClamp(b, t) ==
    [b EXCEPT !.tokens = b.tokens + (t - b.last_refill) * b.refill_rate,
              !.last_refill = t]

RefillStale(b, t) ==
    [b EXCEPT !.tokens = Min(b.capacity * TokenUnit, b.tokens + (t - t) * b.refill_rate),
              !.last_refill = t]

Refill(b, t) ==
    [b EXCEPT !.tokens = Min(b.capacity * TokenUnit,
                             b.tokens + (t - b.last_refill) * b.refill_rate),
              !.last_refill = t]

(* Variant of consume with a slip: tokens > n instead of tokens >= n. *)
ConsumeStrict(b, n, t) ==
    LET r == Refill(b, t)
    IN  IF r.tokens > n * TokenUnit
        THEN [ok |-> TRUE, bucket |-> [r EXCEPT !.tokens = @ - n * TokenUnit]]
        ELSE [ok |-> FALSE, bucket |-> r]

(* Variant of consume with a slip: a rejected call takes what is left. *)
ConsumePartial(b, n, t) ==
    LET r == Refill(b, t)
    IN  IF r.tokens >= n * TokenUnit
        THEN [ok |-> TRUE, bucket |-> [r EXCEPT !.tokens = @ - n * TokenUnit]]
        ELSE [ok |-> FALSE, bucket |-> [r EXCEPT !.tokens = 0]]

Consume(b, n, t) ==
    LET r == Refill(b, t)
    IN  IF r.tokens >= n * TokenUnit
        THEN [ok |-> TRUE, bucket |-> [r EXCEPT !.tokens = @ - n * TokenUnit]]
        ELSE [ok |-> FALSE, bucket |-> r]

----------------------------------------------------------------------------
(* deque(maxlen=n) *)

Deque(maxlen) == [maxlen |-> maxlen, items |-> <<>>]

(* Variant of deque.append with a slip: maxlen is not enforced. *)
DequeAppendUnbounded(d, x) == [d EXCEPT !.items = Append(d.items, x)]

DequeAppend(d, x) ==
    IF d.maxlen = 0 THEN d
    ELSE IF Len(d.items) >= d.maxlen
         THEN [d EXCEPT !.items = Append(Tail(d.items), x)]
         ELSE [d EXCEPT !.items = Append(d.items, x)]

(* Variant of the trimming loop with a slip: nothing is removed. *)
PopNone(q, cutoff) == q

RECURSIVE PopOld(_, _)
PopOld(q, cutoff) ==
    IF q # <<>> /\ Head(q) < cutoff THEN PopOld(Tail(q), cutoff) ELSE q

----------------------------------------------------------------------------
(* RateLimiter helpers, each a function of the stores it reads. *)

(* Variant with a slip: the whitelist read from a key the configuration    *)
(* does not hold, which leaves the fallback list without the configured    *)
(* address.                                                                *)
WhitelistFallback == {"localhost"}

whitelist == config.whitelist

HistoryKey(ip) == "requests:" \o ip
EndpointKey(ip, endpoint) == ip \o ":" \o endpoint

(* Variant of _get_ip_bucket with a slip: the bucket is made anew on every *)
(* call, as when the membership test is not under the lock of the store.   *)
GetIpBucketAnew(buckets, cfg, ip, t) ==
    [k \in DOMAIN buckets \cup {ip} |->
        IF k = ip THEN NewBucket(cfg.ip_burst, cfg.ip_rate_limit, t) ELSE buckets[k]]

GetIpBucket(buckets, cfg, ip, t) ==
    IF ip \notin DOMAIN buckets
    THEN buckets @@ (ip :> NewBucket(cfg.ip_burst, cfg.ip_rate_limit, t))
    ELSE buckets

(* Variant of _check_endpoint_limit with a slip: len(history) > limit. *)
CheckEndpointLimitOffByOne(hist, ip, endpoint, limit, t) ==
    LET key == EndpointKey(ip, endpoint)
        h0 == IF key \notin DOMAIN hist THEN hist @@ (key :> Deque(limit)) ELSE hist
        trimmed == [h0[key] EXCEPT !.items = PopOld(@, t - MinuteWindow)]
    IN  IF Len(trimmed.items) > limit
        THEN [ok |-> FALSE, hist |-> [h0 EXCEPT ![key] = trimmed]]
        ELSE [ok |-> TRUE, hist |-> [h0 EXCEPT ![key] = DequeAppend(trimmed, t)]]

CheckEndpointLimit(hist, ip, endpoint, limit, t) ==
    LET key == EndpointKey(ip, endpoint)
        h0 == IF key \notin DOMAIN hist THEN hist @@ (key :> Deque(limit)) ELSE hist
        trimmed == [h0[key] EXCEPT !.items = PopOld(@, t - MinuteWindow)]
    IN  IF Len(trimmed.items) >= limit
        THEN [ok |-> FALSE, hist |-> [h0 EXCEPT ![key] = trimmed]]
        ELSE [ok |-> TRUE, hist |-> [h0 EXCEPT ![key] = DequeAppend(trimmed, t)]]

RecordRequest(hist, ip, endpoint, t) ==
    LET key == HistoryKey(ip)
        h0 == IF key \notin DOMAIN hist THEN hist @@ (key :> Deque(HistoryCap)) ELSE hist
    IN  [h0 EXCEPT ![key] = DequeAppend(@, [time |-> t, endpoint |-> endpoint])]

HistoryOf(hist, ip) ==
    IF HistoryKey(ip) \in DOMAIN hist THEN hist[HistoryKey(ip)].items ELSE <<>>

DetectAttackPattern(hist, cfg, ip, endpoint, t) ==
    LET history == HistoryOf(hist, ip)
        recent_second == {k \in 1..Len(history) : history[k].time > t - BurstWindow}
        recent_minute == {k \in 1..Len(history) :
                             /\ history[k].time > t - MinuteWindow
                             /\ history[k].endpoint \in SlowEndpoints}
        recent_10s == {k \in 1..Len(history) : history[k].time > t - ScanWindow}
        unique_endpoints == {history[k].endpoint : k \in recent_10s}
    IN  IF history = <<>> THEN FALSE
        ELSE IF Cardinality(recent_second) > cfg.burst_threshold THEN TRUE
        ELSE IF /\ cfg.enable_slowloris_protection
                /\ endpoint \in SlowEndpoints
                /\ Cardinality(recent_minute) > SlowThreshold THEN TRUE
        ELSE IF /\ cfg.enable_distributed_attack_detection
                /\ Cardinality(unique_endpoints) > ScanThreshold THEN TRUE
        ELSE FALSE

(* Variant of _should_block_ip with a slip: >= block_threshold. *)
ShouldBlockIpAtThreshold(hist, cfg, ip, t) ==
    LET history == HistoryOf(hist, ip)
        recent_minute == {k \in 1..Len(history) : history[k].time > t - MinuteWindow}
    IN  IF history = <<>> THEN FALSE
        ELSE Cardinality(recent_minute) >= cfg.block_threshold

ShouldBlockIp(hist, cfg, ip, t) ==
    LET history == HistoryOf(hist, ip)
        recent_minute == {k \in 1..Len(history) : history[k].time > t - MinuteWindow}
    IN  IF history = <<>> THEN FALSE
        ELSE Cardinality(recent_minute) > cfg.block_threshold

BlockIp(blocked, cfg, ip, t) ==
    IF ip \in DOMAIN blocked
    THEN [blocked EXCEPT ![ip] = t + cfg.block_duration]
    ELSE blocked @@ (ip :> t + cfg.block_duration)

Without(f, keys) == [k \in DOMAIN f \ keys |-> f[k]]

(* Variant of _is_blocked with a slip: a block found in force is renewed   *)
(* for the length it had when it was set.                                  *)
IsBlockedExtends(blocked, ip, t) ==
    IF ip \in DOMAIN blocked
    THEN IF t < blocked[ip]
         THEN [blocked |-> TRUE, map |-> [blocked EXCEPT ![ip] = t + config.block_duration]]
         ELSE [blocked |-> FALSE, map |-> Without(blocked, {ip})]
    ELSE [blocked |-> FALSE, map |-> blocked]

(* Variant of _is_blocked with a slip: now <= expiry, which keeps the      *)
(* block in force at the instant it ends.                                  *)
IsBlockedInclusive(blocked, ip, t) ==
    IF ip \in DOMAIN blocked
    THEN IF t <= blocked[ip]
         THEN [blocked |-> TRUE, map |-> blocked]
         ELSE [blocked |-> FALSE, map |-> Without(blocked, {ip})]
    ELSE [blocked |-> FALSE, map |-> blocked]

IsBlocked(blocked, ip, t) ==
    IF ip \in DOMAIN blocked
    THEN IF t < blocked[ip]
         THEN [blocked |-> TRUE, map |-> blocked]
         ELSE [blocked |-> FALSE, map |-> Without(blocked, {ip})]
    ELSE [blocked |-> FALSE, map |-> blocked]

----------------------------------------------------------------------------
(* check_rate_limit: the decision and the stores as the call leaves them.  *)
(* window is what _check_endpoint_limit returned, "none" when it was not   *)
(* called.                                                                 *)

ReasonBlocked(ip) == "IP " \o ip \o " is temporarily blocked due to excessive requests"
ReasonPattern == "Suspicious request pattern detected"
ReasonEndpoint(endpoint) == "Endpoint rate limit exceeded for " \o endpoint
ReasonExcessive(ip) == "IP " \o ip \o " blocked due to excessive requests"
ReasonSlowDown == "Rate limit exceeded. Please slow down your requests."
None == "None"

Outcome(allowed, reason, buckets, hist, blocked, st, window) ==
    [allowed |-> allowed, reason |-> reason, ip_buckets |-> buckets,
     request_history |-> hist, blocked_ips |-> blocked, stats |-> st,
     window |-> window]

Bump(st, field) ==
    IF field = "blocked_requests"
    THEN [st EXCEPT !.blocked_requests = @ + 1]
    ELSE [st EXCEPT !.rate_limited_requests = @ + 1]

(* Variant of lines 181-191 with a slip: the threshold is checked on the   *)
(* history as it was before the rejected attempt is recorded.              *)
BucketStepChecksFirst(ip, endpoint, buckets, hist, blocked, st, window) ==
    LET c == Consume(buckets[ip], 1, now)
        buckets1 == [buckets EXCEPT ![ip] = c.bucket]
        hist1 == RecordRequest(hist, ip, endpoint, now)
    IN  IF ~c.ok
        THEN IF ShouldBlockIp(hist, config, ip, now)
             THEN Outcome(FALSE, ReasonExcessive(ip), buckets1, hist1,
                          BlockIp(blocked, config, ip, now),
                          Bump(st, "rate_limited_requests"), window)
             ELSE Outcome(FALSE, ReasonSlowDown, buckets1, hist1, blocked,
                          Bump(st, "rate_limited_requests"), window)
        ELSE Outcome(TRUE, None, buckets1, hist1, blocked, st, window)

(* Lines 181-196: the token bucket, then the record and the threshold. *)
BucketStep(ip, endpoint, buckets, hist, blocked, st, window) ==
    LET c == Consume(buckets[ip], 1, now)
        buckets1 == [buckets EXCEPT ![ip] = c.bucket]
        hist1 == RecordRequest(hist, ip, endpoint, now)
    IN  IF ~c.ok
        THEN IF ShouldBlockIp(hist1, config, ip, now)
             THEN Outcome(FALSE, ReasonExcessive(ip), buckets1, hist1,
                          BlockIp(blocked, config, ip, now),
                          Bump(st, "rate_limited_requests"), window)
             ELSE Outcome(FALSE, ReasonSlowDown, buckets1, hist1, blocked,
                          Bump(st, "rate_limited_requests"), window)
        ELSE Outcome(TRUE, None, buckets1, hist1, blocked, st, window)

(* Variant of lines 171-191 with a slip: the token bucket is consulted     *)
(* before the endpoint's quota.                                            *)
EndpointStepBucketFirst(ip, endpoint, blocked, st) ==
    LET buckets1 == GetIpBucket(ip_buckets, config, ip, now)
        endpoint_limit == config.endpoint_limits[endpoint]
        b == BucketStep(ip, endpoint, buckets1, request_history, blocked, st, "none")
        w == CheckEndpointLimit(b.request_history, ip, endpoint, endpoint_limit, now)
    IN  IF ~b.allowed \/ endpoint_limit = NoLimit THEN b
        ELSE IF ~w.ok
        THEN Outcome(FALSE, ReasonEndpoint(endpoint), b.ip_buckets, w.hist, blocked,
                     Bump(st, "rate_limited_requests"), "denied")
        ELSE Outcome(TRUE, None, b.ip_buckets, w.hist, blocked, st, "passed")

(* Lines 171-179: the bucket is fetched, then the endpoint's quota. *)
EndpointStep(ip, endpoint, blocked, st) ==
    LET buckets1 == GetIpBucket(ip_buckets, config, ip, now)
        endpoint_limit == config.endpoint_limits[endpoint]
        w == CheckEndpointLimit(request_history, ip, endpoint, endpoint_limit, now)
    IN  IF endpoint_limit # NoLimit
        THEN IF ~w.ok
             THEN Outcome(FALSE, ReasonEndpoint(endpoint), buckets1, w.hist, blocked,
                          Bump(st, "rate_limited_requests"), "denied")
             ELSE BucketStep(ip, endpoint, buckets1, w.hist, blocked, st, "passed")
        ELSE BucketStep(ip, endpoint, buckets1, request_history, blocked, st, "none")

(* Variant of check_rate_limit with a slip: the request is recorded before *)
(* the pattern detection's verdict is acted upon.                          *)
CheckRateLimitRecordsFirst(ip, endpoint) ==
    LET st1 == [stats EXCEPT !.total_requests = @ + 1, !.unique_ips = @ \cup {ip}]
        b == IsBlocked(blocked_ips, ip, now)
    IN  IF ip \in whitelist
        THEN Outcome(TRUE, None, ip_buckets, request_history, blocked_ips, st1, "none")
        ELSE IF b.blocked
        THEN Outcome(FALSE, ReasonBlocked(ip), ip_buckets, request_history, b.map,
                     Bump(st1, "blocked_requests"), "none")
        ELSE IF /\ config.enable_pattern_detection
                /\ DetectAttackPattern(request_history, config, ip, endpoint, now)
        THEN Outcome(FALSE, ReasonPattern, ip_buckets,
                     RecordRequest(request_history, ip, endpoint, now),
                     BlockIp(b.map, config, ip, now), st1, "none")
        ELSE EndpointStep(ip, endpoint, b.map, st1)

CheckRateLimitResult(ip, endpoint) ==
    LET st1 == [stats EXCEPT !.total_requests = @ + 1, !.unique_ips = @ \cup {ip}]
        b == IsBlocked(blocked_ips, ip, now)
    IN  IF ip \in whitelist
        THEN Outcome(TRUE, None, ip_buckets, request_history, blocked_ips, st1, "none")
        ELSE IF b.blocked
        THEN Outcome(FALSE, ReasonBlocked(ip), ip_buckets, request_history, b.map,
                     Bump(st1, "blocked_requests"), "none")
        ELSE IF /\ config.enable_pattern_detection
                /\ DetectAttackPattern(request_history, config, ip, endpoint, now)
        THEN Outcome(FALSE, ReasonPattern, ip_buckets, request_history,
                     BlockIp(b.map, config, ip, now), st1, "none")
        ELSE EndpointStep(ip, endpoint, b.map, st1)

----------------------------------------------------------------------------
(* reset_ip removes every history key that contains ip as a substring.     *)
(* Of the identifiers of the model, only IpA occurs inside another one.    *)

IsSubstring(a, b) == a = b \/ <<a, b>> \in {<<IpA, IpB>>}

(* Variant with a slip: only the "requests:" key is matched, and exactly. *)
KeysOfRecords(ip) == {HistoryKey(ip)}

KeysContaining(ip) ==
    {HistoryKey(j) : j \in {i \in IPs : IsSubstring(ip, i)}}
        \cup {EndpointKey(j, e) : j \in {i \in IPs : IsSubstring(ip, i)}, e \in Endpoints}

WindowKeys == {EndpointKey(i, e) : i \in IPs, e \in Endpoints}

(* The cleanup thread tells the two kinds of queue apart by the type of    *)
(* their items: dicts under a "requests:" key, floats under a window key.  *)
HoldsRecords(key) == key \in {HistoryKey(i) : i \in IPs}

StaleHistoryKeys(hist, t) ==
    {k \in DOMAIN hist :
        /\ hist[k].items # <<>>
        /\ \A n \in 1..Len(hist[k].items) :
              HoldsRecords(k) /\ hist[k].items[n].time < t - Retention}

(* Variant of the cleanup's expiry test with a slip: the comparison turned. *)
ExpiredBlocksTurned(blocked, t) == {i \in DOMAIN blocked : t < blocked[i]}

ExpiredBlocks(blocked, t) == {i \in DOMAIN blocked : t > blocked[i]}

IdleBuckets(buckets, t) == {i \in DOMAIN buckets : buckets[i].last_refill < t - Retention}

----------------------------------------------------------------------------
(* The observations: the window checks that passed within the last minute, *)
(* and the run of same-instant requests of a fresh identity (n requests at *)
(* time at; n = 0 while fresh, n = -1 once the run is broken).             *)

Fresh == [n |-> 0, at |-> 0]
Broken == [n |-> -1, at |-> 0]

RunNext(r, endpoint, t) ==
    IF config.endpoint_limits[endpoint] # NoLimit THEN Broken
    ELSE IF r.n = 0 THEN [n |-> 1, at |-> t]
    ELSE IF r.n > 0 /\ r.at = t THEN [n |-> r.n + 1, at |-> t]
    ELSE Broken

RECURSIVE Since(_, _)
Since(q, cutoff) ==
    IF q = <<>> THEN <<>>
    ELSE IF Head(q) < cutoff THEN Since(Tail(q), cutoff)
    ELSE <<Head(q)>> \o Since(Tail(q), cutoff)

----------------------------------------------------------------------------
(* Worker threads.  Each runs one check_rate_limit call at a time; the     *)
(* locals of the call are its arguments, the clock value read on entry to  *)
(* _check_endpoint_limit (at), and whether the deque the thread is         *)
(* iterating over has been mutated since the iteration began (dirty), and  *)
(* the value of total_requests that the call read (seen).                  *)

Threads == {"t1", "t2"}

ThreadRequests == {<<IpA, Search>>, <<IpA, Status>>}

Idle ==
    [pc |-> "idle", ip |-> "", endpoint |-> "", at |-> 0, dirty |-> FALSE, seen |-> 0]

(* The threads iterating over the deque under key. *)
Iterating(key) ==
    {t \in Threads : /\ threads[t].pc \in {"detect", "should_block"}
                      /\ HistoryKey(threads[t].ip) = key}

----------------------------------------------------------------------------
(* The state machine. *)

(* The stores of an engine that has served no call. *)
Unserved ==
    [ip_buckets |-> <<>>, request_history |-> <<>>, blocked_ips |-> <<>>,
     stats |-> [total_requests |-> 0, blocked_requests |-> 0,
                rate_limited_requests |-> 0, unique_ips |-> {}],
     same |-> TRUE]

Init ==
    /\ now = 0
    /\ config \in Configs
    /\ ip_buckets = <<>>
    /\ request_history = <<>>
    /\ blocked_ips = <<>>
    /\ stats = [total_requests |-> 0, blocked_requests |-> 0,
                rate_limited_requests |-> 0, unique_ips |-> {}]
    /\ last = [op |-> "none", ip |-> "", endpoint |-> "", allowed |-> TRUE,
               reason |-> None, released |-> FALSE, purged |-> FALSE]
    /\ admits = [k \in WindowKeys |-> <<>>]
    /\ run = [i \in IPs |-> Fresh]
    /\ threads = [t \in Threads |-> Idle]
    /\ consumed = [i \in IPs |-> 0]
    /\ unswept = Unserved

(* The call on the engine's stores; most bounds the number of calls of a   *)
(* behaviour.                                                              *)
CheckRateLimitCall(ip, endpoint, most) ==
    /\ stats.total_requests < most
    /\ LET r == CheckRateLimitResult(ip, endpoint)
       IN  /\ ip_buckets' = r.ip_buckets
           /\ request_history' = r.request_history
           /\ blocked_ips' = r.blocked_ips
           /\ stats' = r.stats
           /\ last' = [op |-> "check_rate_limit", ip |-> ip, endpoint |-> endpoint,
                       allowed |-> r.allowed, reason |-> r.reason,
                       released |-> /\ last.op = "reset_ip"
                                    /\ last.ip = ip
                                    /\ last.released,
                       purged |-> /\ ip \notin whitelist
                                  /\ ip \in DOMAIN blocked_ips
                                  /\ ~IsBlocked(blocked_ips, ip, now).blocked]
           /\ admits' = IF r.window = "passed"
                        THEN [admits EXCEPT ![EndpointKey(ip, endpoint)] = Append(@, now)]
                        ELSE admits
    /\ run' = [run EXCEPT ![ip] = RunNext(@, endpoint, now)]
    /\ UNCHANGED <<now, config, threads, consumed>>

CheckRateLimitUpTo(ip, endpoint, most) ==
    CheckRateLimitCall(ip, endpoint, most) /\ UNCHANGED unswept

CheckRateLimit(ip, endpoint) == CheckRateLimitUpTo(ip, endpoint, MaxRequests)

ResetIp(ip) ==
    /\ blocked_ips' = Without(blocked_ips, {ip})
    /\ ip_buckets' = Without(ip_buckets, {ip})
    /\ request_history' = Without(request_history, KeysContaining(ip))
    /\ last' = [op |-> "reset_ip", ip |-> ip, endpoint |-> "", allowed |-> TRUE,
                reason |-> "IP " \o ip \o " has been reset",
                released |-> ip \in DOMAIN blocked_ips /\ now < blocked_ips[ip],
                purged |-> FALSE]
    /\ admits' = [k \in WindowKeys |->
                     IF k \in KeysContaining(ip) /\ k \in DOMAIN request_history
                     THEN <<>> ELSE admits[k]]
    /\ run' = [run EXCEPT ![ip] = Fresh]
    /\ UNCHANGED <<unswept, now, config, stats, threads, consumed>>

Cleanup ==
    /\ request_history' = Without(request_history, StaleHistoryKeys(request_history, now))
    /\ blocked_ips' = Without(blocked_ips, ExpiredBlocks(blocked_ips, now))
    /\ ip_buckets' = Without(ip_buckets, IdleBuckets(ip_buckets, now))
    /\ UNCHANGED <<unswept, now, config, stats, last, admits, run, threads, consumed>>

Tick(d) ==
    /\ now + d <= MaxTime
    /\ now' = now + d
    /\ admits' = [k \in WindowKeys |-> Since(admits[k], now' - MinuteWindow)]
    /\ UNCHANGED <<unswept, config, ip_buckets, request_history, blocked_ips, stats, last, run,
                   threads, consumed>>

Next ==
    \/ \E r \in Requests : CheckRateLimit(r[1], r[2])
    \/ \E ip \in ResetTargets : ResetIp(ip)
    \/ Cleanup
    \/ \E d \in 1..MaxTime : Tick(d)

Spec == Init /\ [][Next]_vars

NextPair ==
    \/ \E r \in PairRequests : CheckRateLimit(r[1], r[2])
    \/ \E ip \in PairResetTargets : ResetIp(ip)
    \/ Cleanup
    \/ \E d \in 1..MaxTime : Tick(d)

SpecPair == Init /\ [][NextPair]_vars

----------------------------------------------------------------------------
(* check_rate_limit as worker threads run it, one step per stretch of the  *)
(* call between two points where another thread can get in.  What a lock   *)
(* of the code covers is one step; an iteration over a deque is two, its   *)
(* beginning and its end, and fails at its end when the deque was mutated  *)
(* in between ("deque mutated during iteration").  The thread's bucket     *)
(* variable refers to ip_buckets[ip]: no step of these threads removes a   *)
(* bucket.  The calls last no time; the clock moves by pauses longer than  *)
(* the minute window.                                                      *)

Returns(t, allowed, reason) ==
    /\ last' = [op |-> "check_rate_limit", ip |-> threads[t].ip,
                endpoint |-> threads[t].endpoint, allowed |-> allowed,
                reason |-> reason, released |-> FALSE, purged |-> FALSE]
    /\ threads' = [threads EXCEPT ![t] = Idle]

Raises(t) ==
    /\ threads' = [threads EXCEPT ![t].pc = "raised"]
    /\ UNCHANGED last

Goes(t, pc) ==
    /\ threads' = [threads EXCEPT ![t].pc = pc, ![t].dirty = FALSE]
    /\ UNCHANGED last

(* Lines 149-165: the counters, the whitelist, _is_blocked under its lock, *)
(* and in _detect_attack_pattern the history fetched and, when it is not   *)
(* empty, the first iteration begun.                                       *)
Begin(t, ip, endpoint) ==
    /\ threads[t].pc \in {"idle", "raised"}
    /\ stats.total_requests < MaxRequests
    /\ LET st1 == [stats EXCEPT !.total_requests = @ + 1, !.unique_ips = @ \cup {ip}]
           b == IsBlocked(blocked_ips, ip, now)
           call == [Idle EXCEPT !.ip = ip, !.endpoint = endpoint]
       IN  IF ip \in whitelist
           THEN /\ stats' = st1
                /\ last' = [op |-> "check_rate_limit", ip |-> ip, endpoint |-> endpoint,
                            allowed |-> TRUE, reason |-> None,
                            released |-> FALSE, purged |-> FALSE]
                /\ threads' = [threads EXCEPT ![t] = Idle]
                /\ UNCHANGED blocked_ips
           ELSE IF b.blocked
           THEN /\ stats' = Bump(st1, "blocked_requests")
                /\ last' = [op |-> "check_rate_limit", ip |-> ip, endpoint |-> endpoint,
                            allowed |-> FALSE, reason |-> ReasonBlocked(ip),
                            released |-> FALSE, purged |-> FALSE]
                /\ threads' = [threads EXCEPT ![t] = Idle]
                /\ blocked_ips' = b.map
           ELSE /\ stats' = st1
                /\ blocked_ips' = b.map
                /\ threads' = [threads EXCEPT ![t] =
                       [call EXCEPT !.pc =
                           IF /\ config.enable_pattern_detection
                              /\ HistoryOf(request_history, ip) # <<>>
                           THEN "detect" ELSE "bucket"]]
                /\ UNCHANGED last
    /\ run' = [run EXCEPT ![ip] = RunNext(@, endpoint, now)]
    /\ UNCHANGED <<unswept, now, config, ip_buckets, request_history, admits, consumed>>

(* Lines 271-290 and 168-169: the first iteration ends; the other two run  *)
(* without another thread getting in; a tripped heuristic blocks.          *)
Detect(t) ==
    /\ threads[t].pc = "detect"
    /\ IF threads[t].dirty
       THEN Raises(t) /\ UNCHANGED blocked_ips
       ELSE IF DetectAttackPattern(request_history, config, threads[t].ip,
                                   threads[t].endpoint, now)
       THEN /\ blocked_ips' = BlockIp(blocked_ips, config, threads[t].ip, now)
            /\ Returns(t, FALSE, ReasonPattern)
       ELSE Goes(t, "bucket") /\ UNCHANGED blocked_ips
    /\ UNCHANGED <<unswept, now, config, ip_buckets, request_history, stats, admits, run,
                   consumed>>

(* Lines 172-176: _get_ip_bucket under its lock, then the quota looked up. *)
GetBucket(t) ==
    /\ threads[t].pc = "bucket"
    /\ ip_buckets' = GetIpBucket(ip_buckets, config, threads[t].ip, now)
    /\ Goes(t, IF config.endpoint_limits[threads[t].endpoint] # NoLimit
               THEN "window" ELSE "consume")
    /\ UNCHANGED <<unswept, now, config, request_history, blocked_ips, stats, admits, run,
                   consumed>>

(* Lines 224-239: the window's queue created when missing, trimmed, and    *)
(* its length compared with the limit.                                     *)
WindowCheck(t) ==
    LET ip == threads[t].ip
        endpoint == threads[t].endpoint
        limit == config.endpoint_limits[endpoint]
        key == EndpointKey(ip, endpoint)
        w == CheckEndpointLimit(request_history, ip, endpoint, limit, now)
    IN  /\ threads[t].pc = "window"
        /\ IF ~w.ok
           THEN /\ request_history' = w.hist
                /\ stats' = Bump(stats, "rate_limited_requests")
                /\ Returns(t, FALSE, ReasonEndpoint(endpoint))
           ELSE /\ request_history' =
                       [w.hist EXCEPT ![key].items = PopOld(
                           IF key \in DOMAIN request_history
                           THEN request_history[key].items ELSE <<>>,
                           now - MinuteWindow)]
                /\ threads' = [threads EXCEPT ![t].pc = "append", ![t].at = now]
                /\ UNCHANGED <<unswept, stats, last>>
        /\ UNCHANGED <<unswept, now, config, ip_buckets, blocked_ips, admits, run, consumed>>

(* Lines 241-242: the clock value read on entry is appended. *)
WindowAppend(t) ==
    LET key == EndpointKey(threads[t].ip, threads[t].endpoint)
    IN  /\ threads[t].pc = "append"
        /\ request_history' =
               [request_history EXCEPT ![key] = DequeAppend(@, threads[t].at)]
        /\ admits' = [admits EXCEPT ![key] = Append(@, threads[t].at)]
        /\ threads' = [threads EXCEPT ![t].pc = "consume", ![t].at = 0]
        /\ UNCHANGED <<unswept, now, config, ip_buckets, blocked_ips, stats, last, run,
                       consumed>>

(* Lines 182-183: bucket.consume() under the bucket's lock. *)
ConsumeStep(t) ==
    LET ip == threads[t].ip
        c == Consume(ip_buckets[ip], 1, now)
    IN  /\ threads[t].pc = "consume"
        /\ ip_buckets' = [ip_buckets EXCEPT ![ip] = c.bucket]
        /\ consumed' = [consumed EXCEPT ![ip] = IF c.ok THEN @ + 1 ELSE @]
        /\ stats' = IF c.ok THEN stats ELSE Bump(stats, "rate_limited_requests")
        /\ Goes(t, IF c.ok THEN "record_ok" ELSE "record_fail")
        /\ UNCHANGED <<unswept, now, config, request_history, blocked_ips, admits, run>>

(* Lines 186 and 194, and in _should_block_ip lines 294-303: the request   *)
(* recorded, which mutates the deque under every thread iterating over it; *)
(* after a rejection by the bucket, the history fetched and the iteration  *)
(* begun.                                                                  *)
Record(t) ==
    LET ip == threads[t].ip
        others == Iterating(HistoryKey(ip)) \ {t}
    IN  /\ threads[t].pc \in {"record_ok", "record_fail"}
        /\ request_history' = RecordRequest(request_history, ip, threads[t].endpoint, now)
        /\ threads' = [u \in Threads |->
               IF u = t
               THEN IF threads[t].pc = "record_ok" THEN Idle
                    ELSE [threads[t] EXCEPT !.pc = "should_block", !.dirty = FALSE]
               ELSE IF u \in others THEN [threads[u] EXCEPT !.dirty = TRUE]
               ELSE threads[u]]
        /\ last' = IF threads[t].pc = "record_ok"
                   THEN [op |-> "check_rate_limit", ip |-> ip,
                         endpoint |-> threads[t].endpoint, allowed |-> TRUE,
                         reason |-> None, released |-> FALSE, purged |-> FALSE]
                   ELSE last
        /\ UNCHANGED <<unswept, now, config, ip_buckets, blocked_ips, stats, admits, run,
                       consumed>>

(* Lines 303-305 and 187-191: the iteration ends, the count is compared. *)
ShouldBlock(t) ==
    LET ip == threads[t].ip
    IN  /\ threads[t].pc = "should_block"
        /\ IF threads[t].dirty
           THEN Raises(t) /\ UNCHANGED blocked_ips
           ELSE IF ShouldBlockIp(request_history, config, ip, now)
           THEN /\ blocked_ips' = BlockIp(blocked_ips, config, ip, now)
                /\ Returns(t, FALSE, ReasonExcessive(ip))
           ELSE Returns(t, FALSE, ReasonSlowDown) /\ UNCHANGED blocked_ips
        /\ UNCHANGED <<unswept, now, config, ip_buckets, request_history, stats, admits, run,
                       consumed>>

NextThreads ==
    \/ \E t \in Threads : \E r \in ThreadRequests : Begin(t, r[1], r[2])
    \/ \E t \in Threads : Detect(t)
    \/ \E t \in Threads : GetBucket(t)
    \/ \E t \in Threads : WindowCheck(t)
    \/ \E t \in Threads : WindowAppend(t)
    \/ \E t \in Threads : ConsumeStep(t)
    \/ \E t \in Threads : Record(t)
    \/ \E t \in Threads : ShouldBlock(t)
    \/ Tick(MinuteWindow + 1)

SpecThreads == Init /\ [][NextThreads]_vars

----------------------------------------------------------------------------
(* The engine under a wall clock that is set back: time.time() returns a   *)
(* value earlier than one it returned before.                              *)

ClockRequests == {<<IpA, Status>>}

ClockBack(d) ==
    /\ now - d >= 0
    /\ now' = now - d
    /\ UNCHANGED <<unswept, config, ip_buckets, request_history, blocked_ips, stats, last,
                   admits, run, threads, consumed>>

NextClock ==
    \/ \E r \in ClockRequests : CheckRateLimit(r[1], r[2])
    \/ \E d \in 1..MaxTime : Tick(d)
    \/ \E d \in 1..MaxTime : ClockBack(d)

SpecClock == Init /\ [][NextClock]_vars

----------------------------------------------------------------------------
(* Construction.  _load_config starts from the built-in settings and lays  *)
(* over them what the configuration file holds, when the file exists, can  *)
(* be read and parses to an object; in every other case it keeps the       *)
(* built-in settings and goes on.  A source is the state of the file: its  *)
(* kind, and for a valid one the settings it holds.  The built-in          *)
(* durations are in ticks.                                                 *)

default_config ==
    [global_rate_limit |-> 100, global_burst |-> 200,
     ip_rate_limit |-> 30, ip_burst |-> 60,
     endpoint_limits |-> (Search :> 30) @@ (Logs :> 20) @@ (Status :> NoLimit),
     block_threshold |-> 1000, block_duration |-> 3600 * TokenUnit,
     burst_threshold |-> 50,
     whitelist |-> {Local, "localhost", "::1"},
     enable_pattern_detection |-> TRUE,
     enable_distributed_attack_detection |-> TRUE,
     enable_slowloris_protection |-> TRUE]

Sources ==
    {[kind |-> "absent", content |-> <<>>],
     [kind |-> "unreadable", content |-> <<>>],
     [kind |-> "malformed", content |-> <<>>],
     [kind |-> "valid", content |-> Throttling]}

LoadConfig(source) ==
    IF source.kind = "valid" THEN source.content @@ default_config
    ELSE default_config

(* The engine as __init__ leaves it, given the source; last tells the kind *)
(* of source the constructor was given.                                    *)
InitFrom(source) ==
    /\ now = 0
    /\ config = LoadConfig(source)
    /\ ip_buckets = <<>>
    /\ request_history = <<>>
    /\ blocked_ips = <<>>
    /\ stats = [total_requests |-> 0, blocked_requests |-> 0,
                rate_limited_requests |-> 0, unique_ips |-> {}]
    /\ last = [op |-> "__init__", ip |-> "", endpoint |-> "", allowed |-> TRUE,
               reason |-> source.kind, released |-> FALSE, purged |-> FALSE]
    /\ admits = [k \in WindowKeys |-> <<>>]
    /\ run = [i \in IPs |-> Fresh]
    /\ threads = [t \in Threads |-> Idle]
    /\ consumed = [i \in IPs |-> 0]
    /\ unswept = Unserved

InitLoad == \E source \in Sources : InitFrom(source)

SpecLoad == InitLoad /\ [][Next]_vars

(* Two identities under the Strict settings: both can be on the blocklist  *)
(* at once, with expiries apart.                                           *)
InitBlocks == InitFrom([kind |-> "valid", content |-> Strict])

SpecBlocks == InitBlocks /\ [][NextPair]_vars

(* The counter of line 152.  self.stats['total_requests'] += 1 is a read   *)
(* of the dictionary's entry, an addition and a write, with no lock held;  *)
(* a thread can be switched out between the read and the write.  Each      *)
(* thread makes one call: ReadTotal is the read, WriteTotal the write and  *)
(* the rest of the call, after which the thread has returned.              *)
ReadTotal(t, ip, endpoint) ==
    /\ threads[t].pc = "idle"
    /\ threads' = [threads EXCEPT ![t] = [Idle EXCEPT !.pc = "counting", !.ip = ip,
                                                      !.endpoint = endpoint,
                                                      !.seen = stats.total_requests]]
    /\ UNCHANGED <<unswept, now, config, ip_buckets, request_history, blocked_ips, stats, last,
                   admits, run, consumed>>

WriteTotal(t) ==
    LET ip == threads[t].ip
        endpoint == threads[t].endpoint
        r == CheckRateLimitResult(ip, endpoint)
    IN  /\ threads[t].pc = "counting"
        /\ ip_buckets' = r.ip_buckets
        /\ request_history' = r.request_history
        /\ blocked_ips' = r.blocked_ips
        /\ stats' = [r.stats EXCEPT !.total_requests = threads[t].seen + 1]
        /\ last' = [op |-> "check_rate_limit", ip |-> ip, endpoint |-> endpoint,
                    allowed |-> r.allowed, reason |-> r.reason,
                    released |-> FALSE, purged |-> FALSE]
        /\ admits' = IF r.window = "passed"
                     THEN [admits EXCEPT ![EndpointKey(ip, endpoint)] = Append(@, now)]
                     ELSE admits
        /\ run' = [run EXCEPT ![ip] = RunNext(@, endpoint, now)]
        /\ threads' = [threads EXCEPT ![t].pc = "returned"]
        /\ UNCHANGED <<unswept, now, config, consumed>>

NextStats ==
    \/ \E t \in Threads, r \in ThreadRequests : ReadTotal(t, r[1], r[2])
    \/ \E t \in Threads : WriteTotal(t)
    \/ \E d \in 1..MaxTime : Tick(d)

SpecStats == Init /\ [][NextStats]_vars

(* One identity that asks for the expensive resources only, under settings *)
(* in the proportions of the built-in ones: the quotas of the expensive    *)
(* resources add up to no more than the slow-drip count (30 + 20 against   *)
(* 100 in the code, 2 + 1 against SlowThreshold here).  There is no        *)
(* reset_ip, so that total_requests counts the identity's requests.        *)
SlowRequests == {IpA} \X SlowEndpoints

InitSlow == Init /\ config = Throttling

NextSlow ==
    \/ \E r \in SlowRequests : CheckRateLimit(r[1], r[2])
    \/ Cleanup
    \/ \E d \in 1..MaxTime : Tick(d)

SpecSlow == InitSlow /\ [][NextSlow]_vars

(* One identity that keeps asking for a resource without quota, under      *)
(* settings in which, as in the built-in ones, block_threshold is equal to *)
(* the capacity of the history (1000 and 1000 in the code, 4 and           *)
(* HistoryCap here); the behaviours are one call longer than the capacity. *)
(* There is no reset_ip, so that total_requests counts the identity's      *)
(* requests.                                                               *)
SustainedRequests == {<<IpA, Status>>}

InitSustained == Init /\ config = Throttling

NextSustained ==
    \/ \E r \in SustainedRequests : CheckRateLimitUpTo(r[1], r[2], MaxRequests + 1)
    \/ Cleanup
    \/ \E d \in 1..MaxTime : Tick(d)

SpecSustained == InitSustained /\ [][NextSustained]_vars

(* The cleanup thread, cut where it holds no lock while a worker's call    *)
(* can run: after the keys are listed (line 332), and inside                *)
(* all(... for r in history) (line 336) once the first record has been     *)
(* found old, before the iterator is asked for the next one.  Its locals   *)
(* are the clock value read at line 331 (at), the listed keys not yet      *)
(* visited (keys), the key in hand (key) and the deque's items when the    *)
(* iteration began (items).  A deque appended to since its iterator was    *)
(* made raises RuntimeError at the iterator's next step; nothing in        *)
(* cleanup() catches it, and the thread ends (pc "dead").  The workers'    *)
(* calls are single steps, and there is no reset_ip, so that a deque that  *)
(* differs from items has been appended to.                                *)
Reclaimer == "cleanup"

Asleep == [pc |-> "asleep", at |-> 0, keys |-> {}, key |-> "", items |-> <<>>]

InitReclaim ==
    /\ now = 0
    /\ config \in Configs
    /\ ip_buckets = <<>>
    /\ request_history = <<>>
    /\ blocked_ips = <<>>
    /\ stats = [total_requests |-> 0, blocked_requests |-> 0,
                rate_limited_requests |-> 0, unique_ips |-> {}]
    /\ last = [op |-> "none", ip |-> "", endpoint |-> "", allowed |-> TRUE,
               reason |-> None, released |-> FALSE, purged |-> FALSE]
    /\ admits = [k \in WindowKeys |-> <<>>]
    /\ run = [i \in IPs |-> Fresh]
    /\ threads = [t \in Threads |-> Idle] @@ (Reclaimer :> Asleep)
    /\ consumed = [i \in IPs |-> 0]
    /\ unswept = Unserved

(* Lines 328-332: the sleep is over, the clock is read, the keys listed. *)
Wake ==
    /\ threads[Reclaimer].pc = "asleep"
    /\ threads' = [threads EXCEPT ![Reclaimer] =
                       [Asleep EXCEPT !.pc = "loop", !.at = now,
                                      !.keys = DOMAIN request_history]]
    /\ UNCHANGED <<unswept, now, config, ip_buckets, request_history, blocked_ips, stats, last,
                   admits, run, consumed>>

(* The record or timestamp r passes the test of line 336. *)
Old(key, r, t) == HoldsRecords(key) /\ r.time < t - Retention

(* Lines 333-336: the deque fetched and the first item tested; all() is    *)
(* False at the first item that fails, without another step of the         *)
(* iterator.                                                               *)
Visit(key) ==
    LET me == threads[Reclaimer]
        history == request_history[key].items
    IN  /\ me.pc = "loop"
        /\ key \in me.keys
        /\ threads' = [threads EXCEPT ![Reclaimer] =
               IF history # <<>> /\ Old(key, history[1], me.at)
               THEN [me EXCEPT !.pc = "iterating", !.key = key, !.items = history,
                               !.keys = @ \ {key}]
               ELSE [me EXCEPT !.keys = @ \ {key}]]
        /\ UNCHANGED <<unswept, now, config, ip_buckets, request_history, blocked_ips, stats,
                       last, admits, run, consumed>>

(* Lines 336-337: the iterator's next steps, and the deletion. *)
Resume ==
    LET me == threads[Reclaimer]
        history == request_history[me.key].items
    IN  /\ me.pc = "iterating"
        /\ IF history # me.items
           THEN /\ threads' = [threads EXCEPT ![Reclaimer].pc = "dead"]
                /\ UNCHANGED request_history
           ELSE /\ threads' = [threads EXCEPT ![Reclaimer] =
                                  [me EXCEPT !.pc = "loop", !.key = "", !.items = <<>>]]
                /\ request_history' =
                       IF \A k \in 1..Len(history) : Old(me.key, history[k], me.at)
                       THEN Without(request_history, {me.key})
                       ELSE request_history
        /\ UNCHANGED <<unswept, now, config, ip_buckets, blocked_ips, stats, last, admits, run,
                       consumed>>

(* Lines 339-353: the expired blocks and the idle buckets, each under its  *)
(* lock, and back to sleep.                                                *)
Sweep ==
    LET me == threads[Reclaimer]
    IN  /\ me.pc = "loop"
        /\ me.keys = {}
        /\ blocked_ips' = Without(blocked_ips, ExpiredBlocks(blocked_ips, now))
        /\ ip_buckets' = Without(ip_buckets, IdleBuckets(ip_buckets, me.at))
        /\ threads' = [threads EXCEPT ![Reclaimer] = Asleep]
        /\ UNCHANGED <<unswept, now, config, request_history, stats, last, admits, run,
                       consumed>>

NextReclaim ==
    \/ \E r \in SustainedRequests : CheckRateLimit(r[1], r[2])
    \/ Wake
    \/ \E key \in DOMAIN request_history : Visit(key)
    \/ Resume
    \/ Sweep
    \/ \E d \in 1..MaxTime : Tick(d)

SpecReclaim == InitReclaim /\ [][NextReclaim]_vars

(* The engine beside one whose cleanup thread never runs.  unswept holds   *)
(* the stores of the second engine, which is given the same calls at the   *)
(* same clock values and nothing else; check_rate_limit is computed on     *)
(* its stores by the same lines as on the first engine's.                  *)
EndpointStepOn(e, ip, endpoint, blocked, st) ==
    LET buckets1 == GetIpBucket(e.ip_buckets, config, ip, now)
        endpoint_limit == config.endpoint_limits[endpoint]
        w == CheckEndpointLimit(e.request_history, ip, endpoint, endpoint_limit, now)
    IN  IF endpoint_limit # NoLimit
        THEN IF ~w.ok
             THEN Outcome(FALSE, ReasonEndpoint(endpoint), buckets1, w.hist, blocked,
                          Bump(st, "rate_limited_requests"), "denied")
             ELSE BucketStep(ip, endpoint, buckets1, w.hist, blocked, st, "passed")
        ELSE BucketStep(ip, endpoint, buckets1, e.request_history, blocked, st, "none")

CheckRateLimitOn(e, ip, endpoint) ==
    LET st1 == [e.stats EXCEPT !.total_requests = @ + 1, !.unique_ips = @ \cup {ip}]
        b == IsBlocked(e.blocked_ips, ip, now)
    IN  IF ip \in whitelist
        THEN Outcome(TRUE, None, e.ip_buckets, e.request_history, e.blocked_ips, st1,
                     "none")
        ELSE IF b.blocked
        THEN Outcome(FALSE, ReasonBlocked(ip), e.ip_buckets, e.request_history, b.map,
                     Bump(st1, "blocked_requests"), "none")
        ELSE IF /\ config.enable_pattern_detection
                /\ DetectAttackPattern(e.request_history, config, ip, endpoint, now)
        THEN Outcome(FALSE, ReasonPattern, e.ip_buckets, e.request_history,
                     BlockIp(b.map, config, ip, now), st1, "none")
        ELSE EndpointStepOn(e, ip, endpoint, b.map, st1)

(* One call served by both engines. *)
CheckRateLimitBoth(ip, endpoint, most) ==
    /\ CheckRateLimitCall(ip, endpoint, most)
    /\ LET r == CheckRateLimitResult(ip, endpoint)
           u == CheckRateLimitOn(unswept, ip, endpoint)
       IN  unswept' = [ip_buckets |-> u.ip_buckets,
                       request_history |-> u.request_history,
                       blocked_ips |-> u.blocked_ips,
                       stats |-> u.stats,
                       same |-> /\ unswept.same
                                /\ u.allowed = r.allowed
                                /\ u.reason = r.reason]

(* SlowRefill: a bucket of four tokens refilled at one token per second,   *)
(* which the retention horizon does not fill from empty.                   *)
SlowRefill ==
    [Throttling EXCEPT !.ip_burst = 4]

UnsweptRequests == {<<IpA, Status>>}

InitUnswept ==
    \E content \in Configs \cup {SlowRefill} :
        InitFrom([kind |-> "valid", content |-> content])

NextUnswept ==
    \/ \E r \in UnsweptRequests : CheckRateLimitBoth(r[1], r[2], 2 * MaxRequests)
    \/ Cleanup
    \/ \E d \in 1..MaxTime : Tick(d)

SpecUnswept == InitUnswept /\ [][NextUnswept]_vars

(* The locks.  Every operation of the engine is cut at its `with`          *)
(* statements: a thread at the head of one waits until the lock is free,   *)
(* takes it, and gives it back at the end of the block, which holds on     *)
(* every way out of the block, an exception included.  held is the set of  *)
(* locks a thread has taken and not given back.  What the blocks do to the *)
(* stores is left out, and with it what decides the branch taken between   *)
(* two blocks: every branch of the code is open at every visit.  The       *)
(* workers call check_rate_limit, the admin thread reset_ip and get_stats, *)
(* the cleanup thread makes its passes.  A bucket's lock is named after    *)
(* the identity the bucket belongs to.                                     *)
BlockedIpsLock == "blocked_ips_lock"
IpBucketsLock == "ip_buckets_lock"
BucketLock(ip) == "lock:" \o ip
Locks == {BlockedIpsLock, IpBucketsLock} \cup {BucketLock(ip) : ip \in IPs}

Admin == "admin"
LockUsers == Threads \cup {Admin, Reclaimer}
LockIPs == {IpA, IpB}

AtRest == [pc |-> "idle", ip |-> "", held |-> {}]

InitLocks ==
    /\ now = 0
    /\ config = Throttling
    /\ ip_buckets = <<>>
    /\ request_history = <<>>
    /\ blocked_ips = <<>>
    /\ stats = [total_requests |-> 0, blocked_requests |-> 0,
                rate_limited_requests |-> 0, unique_ips |-> {}]
    /\ last = [op |-> "none", ip |-> "", endpoint |-> "", allowed |-> TRUE,
               reason |-> None, released |-> FALSE, purged |-> FALSE]
    /\ admits = [k \in WindowKeys |-> <<>>]
    /\ run = [i \in IPs |-> Fresh]
    /\ threads = [t \in LockUsers |-> AtRest]
    /\ consumed = [i \in IPs |-> 0]
    /\ unswept = Unserved

Holder(lock) == {u \in DOMAIN threads : lock \in threads[u].held}

(* `with lock:` entered: threading.Lock is not reentrant, the caller waits *)
(* while any thread, itself included, holds the lock.                      *)
Take(t, lock, to) ==
    /\ Holder(lock) = {}
    /\ threads' = [threads EXCEPT ![t].held = @ \cup {lock}, ![t].pc = to]

(* Variant of the end of the block with a slip: the lock is not given     *)
(* back.                                                                   *)
DropNothing(t, lock, to) ==
    threads' = [threads EXCEPT ![t].pc = to]

(* The end of the `with` block. *)
Drop(t, lock, to) ==
    threads' = [threads EXCEPT ![t].held = @ \ {lock}, ![t].pc = to]

Jump(t, to) ==
    threads' = [threads EXCEPT ![t].pc = to]

(* Lines 144-196.  From _is_blocked the call returns (blocked) or goes on  *)
(* to the pattern detection; from there to _block_ip, or to                *)
(* _get_ip_bucket, the endpoint's window, consume, the record and the      *)
(* threshold, and from the threshold to _block_ip or back to the caller.   *)
WorkerStep(t) ==
    LET me == threads[t]
    IN  \/ /\ me.pc = "idle"
           /\ \E ip \in LockIPs :
                 threads' = [threads EXCEPT ![t].pc = "_is_blocked", ![t].ip = ip]
        \/ /\ me.pc = "_is_blocked"
           /\ Take(t, BlockedIpsLock, "_is_blocked.with")
        \/ /\ me.pc = "_is_blocked.with"
           /\ \E to \in {"idle", "_detect_attack_pattern"} : Drop(t, BlockedIpsLock, to)
        \/ /\ me.pc = "_detect_attack_pattern"
           /\ \E to \in {"idle", "_block_ip", "_get_ip_bucket"} : Jump(t, to)
        \/ /\ me.pc = "_block_ip"
           /\ Take(t, BlockedIpsLock, "_block_ip.with")
        \/ /\ me.pc = "_block_ip.with"
           /\ Drop(t, BlockedIpsLock, "idle")
        \/ /\ me.pc = "_get_ip_bucket"
           /\ Take(t, IpBucketsLock, "_get_ip_bucket.with")
        \/ /\ me.pc = "_get_ip_bucket.with"
           /\ Drop(t, IpBucketsLock, "_check_endpoint_limit")
        \/ /\ me.pc = "_check_endpoint_limit"
           /\ \E to \in {"idle", "consume"} : Jump(t, to)
        \/ /\ me.pc = "consume"
           /\ Take(t, BucketLock(me.ip), "consume.with")
        \/ /\ me.pc = "consume.with"
           /\ Drop(t, BucketLock(me.ip), "_record_request")
        \/ /\ me.pc = "_record_request"
           /\ \E to \in {"idle", "_block_ip"} : Jump(t, to)

(* Lines 358-390: get_stats takes no lock; reset_ip takes the blocklist's  *)
(* lock, then the bucket map's, then works on the histories with none.     *)
AdminStep ==
    LET me == threads[Admin]
    IN  \/ /\ me.pc = "idle"
           /\ \E to \in {"get_stats", "reset_ip"} : Jump(Admin, to)
        \/ /\ me.pc = "get_stats"
           /\ Jump(Admin, "idle")
        \/ /\ me.pc = "reset_ip"
           /\ Take(Admin, BlockedIpsLock, "reset_ip.blocked_ips")
        \/ /\ me.pc = "reset_ip.blocked_ips"
           /\ Drop(Admin, BlockedIpsLock, "reset_ip.between")
        \/ /\ me.pc = "reset_ip.between"
           /\ Take(Admin, IpBucketsLock, "reset_ip.ip_buckets")
        \/ /\ me.pc = "reset_ip.ip_buckets"
           /\ Drop(Admin, IpBucketsLock, "reset_ip.history")
        \/ /\ me.pc = "reset_ip.history"
           /\ Jump(Admin, "idle")

(* Lines 327-353: the histories with no lock, the blocklist under its      *)
(* lock, the buckets under theirs; the pass ends in the sleep, or in the   *)
(* middle of the histories when an exception leaves the thread.            *)
ReclaimerStep ==
    LET me == threads[Reclaimer]
    IN  \/ /\ me.pc = "idle"
           /\ Jump(Reclaimer, "cleanup.history")
        \/ /\ me.pc = "cleanup.history"
           /\ \E to \in {"cleanup.expired", "dead"} : Jump(Reclaimer, to)
        \/ /\ me.pc = "cleanup.expired"
           /\ Take(Reclaimer, BlockedIpsLock, "cleanup.blocked_ips")
        \/ /\ me.pc = "cleanup.blocked_ips"
           /\ Drop(Reclaimer, BlockedIpsLock, "cleanup.between")
        \/ /\ me.pc = "cleanup.between"
           /\ Take(Reclaimer, IpBucketsLock, "cleanup.ip_buckets")
        \/ /\ me.pc = "cleanup.ip_buckets"
           /\ Drop(Reclaimer, IpBucketsLock, "idle")

LockStep(t) ==
    /\ \/ t \in Threads /\ WorkerStep(t)
       \/ t = Admin /\ AdminStep
       \/ t = Reclaimer /\ ReclaimerStep
    /\ UNCHANGED <<now, config, ip_buckets, request_history, blocked_ips, stats, last,
                   admits, run, consumed, unswept>>

NextLocks == \E t \in LockUsers : LockStep(t)

SpecLocks == InitLocks /\ [][NextLocks]_vars

(* The scheduler lets every thread that can take a step take one. *)
SpecLocksFair == SpecLocks /\ \A t \in LockUsers : WF_vars(LockStep(t))

(* The worker threads under a clock that moves while their calls are in    *)
(* flight: a call that has passed _is_blocked goes on at a later instant.  *)
(* Starved: a bucket of one token refilled at one token per second, under  *)
(* a block threshold of one record.                                        *)
Starved ==
    [Strict EXCEPT !.ip_rate_limit = 1]

OverlapRequests == {<<IpA, Status>>}

InitOverlap == InitFrom([kind |-> "valid", content |-> Starved])

NextOverlap ==
    \/ \E t \in Threads : \E r \in OverlapRequests : Begin(t, r[1], r[2])
    \/ \E t \in Threads : Detect(t)
    \/ \E t \in Threads : GetBucket(t)
    \/ \E t \in Threads : ConsumeStep(t)
    \/ \E t \in Threads : Record(t)
    \/ \E t \in Threads : ShouldBlock(t)
    \/ \E d \in 1..MaxTime : Tick(d)

SpecOverlap == InitOverlap /\ [][NextOverlap]_vars

----------------------------------------------------------------------------
(* Vocabulary of the properties. *)

(* The step is a check_rate_limit call of ip for endpoint. *)
Checked(ip, endpoint) ==
    /\ stats'.total_requests = stats.total_requests + 1
    /\ last'.ip = ip
    /\ last'.endpoint = endpoint

BlockInForce(ip) == ip \in DOMAIN blocked_ips /\ now < blocked_ips[ip]

Limit(endpoint) == config.endpoint_limits[endpoint]

(* The records of ip's history younger than window. *)
Recent(ip, window) ==
    {k \in 1..Len(HistoryOf(request_history, ip)) :
        HistoryOf(request_history, ip)[k].time > now - window}

RecentEndpoints(ip, window) ==
    {HistoryOf(request_history, ip)[k].endpoint : k \in Recent(ip, window)}

----------------------------------------------------------------------------
(* C1: while an identity's block is in force (now < blockedUntil), every   *)
(* check_rate_limit call of that identity, for any endpoint, is denied,    *)
(* and no step other than reset_ip of that identity removes its entry:     *)
(* not the cleanup thread, not another identity's request or reset.        *)
C1_BlockHolds ==
    [][\A ip \in IPs :
          BlockInForce(ip) =>
              /\ \A endpoint \in Endpoints :
                    Checked(ip, endpoint) => ~last'.allowed
              /\ ~ResetIp(ip) => ip \in DOMAIN blocked_ips']_vars

(* A blocked identity has come back after a pause and was denied as blocked. *)
C1_Witness ==
    /\ BlockInForce(IpA)
    /\ now > blocked_ips[IpA] - config.block_duration
    /\ last.ip = IpA
    /\ last.reason = ReasonBlocked(IpA)

(* C2: every bucket's token count stays within [0, capacity]. *)
C2_TokensInRange ==
    \A ip \in DOMAIN ip_buckets :
        /\ 0 <= ip_buckets[ip].tokens
        /\ ip_buckets[ip].tokens <= ip_buckets[ip].capacity * TokenUnit

(* A bucket drained to zero, and one back at less than a token after a     *)
(* fractional refill.                                                      *)
C2_Witness ==
    \E ip \in DOMAIN ip_buckets :
        /\ ip_buckets[ip].tokens = 1
        /\ ip_buckets[ip].last_refill > 0

(* C3: every check_rate_limit call of a whitelisted identity is allowed,   *)
(* for any endpoint and any number of requests.                            *)
C3_WhitelistAllowed ==
    (last.op = "check_rate_limit" /\ last.ip \in config.whitelist)
        => (last.allowed /\ last.reason = None)

(* The whitelisted identity alone has sent, in one second, more requests   *)
(* to a quota'd endpoint than the quota and the bucket would admit.        *)
C3_Witness ==
    /\ last.ip = Local
    /\ last.endpoint = Search
    /\ stats.unique_ips = {Local}
    /\ now = 0
    /\ stats.total_requests > Limit(Search)
    /\ stats.total_requests > config.ip_burst

(* C4: for every (identity, endpoint) with per-minute limit L, at most L   *)
(* calls of _check_endpoint_limit have returned True within the trailing   *)
(* minute: once L have passed, no further one passes in that window.       *)
C4_AtMostLimit ==
    \A ip \in IPs, endpoint \in Endpoints :
        Limit(endpoint) # NoLimit
            => Len(admits[EndpointKey(ip, endpoint)]) <= Limit(endpoint)

(* L requests have passed the window and the next one was denied by it. *)
C4_Witness ==
    /\ Len(admits[EndpointKey(IpA, Search)]) = Limit(Search)
    /\ last.ip = IpA
    /\ last.reason = ReasonEndpoint(Search)

(* C5: a request to a quota'd endpoint is not denied by the window when    *)
(* fewer than L calls of that (identity, endpoint) have passed it within   *)
(* the last minute, however many passed before.                            *)
C5_ExactWindow ==
    [][\A ip \in IPs, endpoint \in Endpoints :
          (/\ Checked(ip, endpoint)
           /\ Limit(endpoint) # NoLimit
           /\ Len(admits[EndpointKey(ip, endpoint)]) < Limit(endpoint))
              => last'.reason # ReasonEndpoint(endpoint)]_vars

(* Request L + 1, sent more than a minute after requests 1 .. L, is allowed. *)
C5_Witness ==
    LET h == HistoryOf(request_history, IpA)
    IN  /\ Len(h) = Limit(Search) + 1
        /\ \A k \in 1..Len(h) : h[k].endpoint = Search
        /\ h[1].time + MinuteWindow < now
        /\ h[Len(h)].time = now
        /\ last.ip = IpA
        /\ last.allowed

(* C6, as claimed: an identity with burst_threshold + 1 requests within    *)
(* the last second is in the blocklist.                                    *)
C6_BurstBlocks ==
    \A ip \in IPs \ config.whitelist :
        Cardinality(Recent(ip, BurstWindow)) > config.burst_threshold
            => BlockInForce(ip)

(* C7, as claimed: an identity with requests to more than ScanThreshold    *)
(* distinct endpoints within the scan window is in the blocklist.          *)
C7_ScanBlocks ==
    \A ip \in IPs \ config.whitelist :
        Cardinality(RecentEndpoints(ip, ScanWindow)) > ScanThreshold
            => BlockInForce(ip)

(* C8, as claimed: with a bucket that admits block_threshold + 1 requests, *)
(* an identity with more than block_threshold requests within the last     *)
(* minute is in the blocklist.                                             *)
C8_ThresholdBlocks ==
    \A ip \in IPs \ config.whitelist :
        (/\ config.ip_burst >= config.block_threshold + 1
         /\ Cardinality(Recent(ip, MinuteWindow)) > config.block_threshold)
            => BlockInForce(ip)

(* C9.  A fresh identity sends requests at one instant to an endpoint      *)
(* without quota, with bucket capacity C.  Requests 1 .. C are allowed;    *)
(* request C + 1 is denied with the slow-down reason and leaves the        *)
(* identity unblocked; the next request, at least 1/R seconds later, is    *)
(* allowed.  Applies(ip) is the precondition on the configuration.         *)
Scenario(ip, endpoint, Applies(_)) ==
    (/\ Checked(ip, endpoint)
     /\ ip \notin config.whitelist
     /\ Limit(endpoint) = NoLimit
     /\ Applies(ip))
        => /\ (run[ip].n = 0 \/ run[ip].at = now) /\ run[ip].n \in 0..(config.ip_burst - 1)
              => last'.allowed
           /\ (run[ip].at = now /\ run[ip].n = config.ip_burst)
              => /\ ~last'.allowed
                 /\ last'.reason = ReasonSlowDown
                 /\ ip \notin DOMAIN blocked_ips'
           /\ (/\ run[ip].n = config.ip_burst + 1
               /\ (now - run[ip].at) * config.ip_rate_limit >= TokenUnit)
              => last'.allowed

(* C9 as claimed: for every capacity not above the burst threshold. *)
CapacityWithinBurst(ip) == config.ip_burst <= config.burst_threshold

C9_AsClaimed ==
    [][\A ip \in IPs, endpoint \in Endpoints :
          Scenario(ip, endpoint, CapacityWithinBurst)]_vars

(* C9 as amended: for every capacity below the burst threshold and below   *)
(* the block threshold.                                                    *)
CapacityBelowThresholds(ip) ==
    /\ config.ip_burst < config.burst_threshold
    /\ config.ip_burst < config.block_threshold

C9_BurstThenRefill ==
    [][\A ip \in IPs, endpoint \in Endpoints :
          Scenario(ip, endpoint, CapacityBelowThresholds)]_vars

(* After C allowed requests and a denied one, the identity has waited 1/R  *)
(* seconds and was allowed again.                                          *)
C9_Witness ==
    LET h == HistoryOf(request_history, IpA)
    IN  /\ CapacityBelowThresholds(IpA)
        /\ Len(h) = config.ip_burst + 2
        /\ \A k \in 1..(config.ip_burst + 1) : h[k].time = h[1].time
        /\ (h[Len(h)].time - h[1].time) * config.ip_rate_limit = TokenUnit
        /\ h[Len(h)].time = now
        /\ ip_buckets[IpA].tokens = 0
        /\ last.ip = IpA
        /\ last.allowed

(* C10: a bucket on which no consume was called for at least C/R seconds   *)
(* does not reject the next request that reaches it.                       *)
C10_IdleBucketAdmits ==
    [][\A ip \in IPs, endpoint \in Endpoints :
          (/\ Checked(ip, endpoint)
           /\ ip \in DOMAIN ip_buckets
           /\ (now - ip_buckets[ip].last_refill) * ip_buckets[ip].refill_rate
                  >= ip_buckets[ip].capacity * TokenUnit)
              => last'.reason \notin {ReasonSlowDown, ReasonExcessive(ip)}]_vars

(* A bucket drained below one token was left idle for C/R seconds and then *)
(* admitted a request.                                                     *)
C10_Witness ==
    LET h == HistoryOf(request_history, IpA)
    IN  /\ Len(h) = config.ip_burst + 2
        /\ \A k \in 1..(config.ip_burst + 1) : h[k].time = h[1].time
        /\ (now - h[1].time) * config.ip_rate_limit >= config.ip_burst * TokenUnit
        /\ h[Len(h)].time = now
        /\ ip_buckets[IpA].last_refill = now
        /\ last.ip = IpA
        /\ last.allowed

----------------------------------------------------------------------------
(* A call of ip for endpoint that gets past the whitelist, the blocklist   *)
(* and the pattern detection, and so reaches the quota and the bucket.     *)
ReachesLimits(ip, endpoint) ==
    /\ ip \notin config.whitelist
    /\ ~BlockInForce(ip)
    /\ ~(/\ config.enable_pattern_detection
         /\ DetectAttackPattern(request_history, config, ip, endpoint, now))

WindowFull(ip, endpoint) ==
    /\ Limit(endpoint) # NoLimit
    /\ Len(admits[EndpointKey(ip, endpoint)]) = Limit(endpoint)

(* What consume would find in ip's bucket at this instant. *)
TokensNow(ip) == Refill(ip_buckets[ip], now).tokens

(* C11 as claimed: once L requests of an identity to a quota'd endpoint    *)
(* have passed the window within the last minute, its next request to     *)
(* that endpoint is denied with the endpoint reason.                       *)
C11_AsClaimed ==
    [][\A ip \in IPs, endpoint \in Endpoints :
          (Checked(ip, endpoint) /\ WindowFull(ip, endpoint))
              => (~last'.allowed /\ last'.reason = ReasonEndpoint(endpoint))]_vars

(* C11 as amended: the same for a request that reaches the quota, that is, *)
(* of an identity that is not blocked and trips no pattern heuristic; the  *)
(* denial leaves the bucket as it was, full or empty.                      *)
C11_WindowBeforeBucket ==
    [][\A ip \in IPs, endpoint \in Endpoints :
          (/\ Checked(ip, endpoint)
           /\ WindowFull(ip, endpoint)
           /\ ReachesLimits(ip, endpoint))
              => /\ ~last'.allowed
                 /\ last'.reason = ReasonEndpoint(endpoint)
                 /\ ip \in DOMAIN ip_buckets
                       => ip_buckets'[ip] = ip_buckets[ip]]_vars

(* The window has denied a request while the bucket, left idle since the   *)
(* L admitted requests, held a full load of tokens.                        *)
C11_Witness ==
    /\ last.ip = IpA
    /\ last.reason = ReasonEndpoint(Search)
    /\ WindowFull(IpA, Search)
    /\ IpA \in DOMAIN ip_buckets
    /\ ip_buckets[IpA].tokens < TokenUnit
    /\ TokensNow(IpA) = config.ip_burst * TokenUnit

----------------------------------------------------------------------------
(* Nothing is stored for ip: no block, no bucket, no history, no window. *)
Cleared(blocked, buckets, hist, ip) ==
    /\ ip \notin DOMAIN blocked
    /\ ip \notin DOMAIN buckets
    /\ HistoryKey(ip) \notin DOMAIN hist
    /\ \A endpoint \in Endpoints : EndpointKey(ip, endpoint) \notin DOMAIN hist

(* C12: reset_ip(ip) leaves no block entry, bucket, history or window of   *)
(* ip, and the check_rate_limit call of ip that follows it, for any        *)
(* endpoint, is allowed.                                                   *)
C12_ResetRestoresAllow ==
    [][\A ip \in IPs \ config.whitelist :
          /\ ResetIp(ip) => Cleared(blocked_ips', ip_buckets', request_history', ip)
          /\ \A endpoint \in Endpoints :
                (last.op = "reset_ip" /\ last.ip = ip /\ Checked(ip, endpoint))
                    => (last'.allowed /\ last'.reason = None)]_vars

(* An identity under a block in force was reset and its next request, to a *)
(* quota'd endpoint, was allowed.                                          *)
C12_Witness ==
    /\ last.op = "check_rate_limit"
    /\ last.ip = IpA
    /\ last.endpoint = Search
    /\ last.released
    /\ last.allowed

----------------------------------------------------------------------------
(* The keys under which request_history holds queues of ip. *)
KeysOf(ip) == {HistoryKey(ip)} \cup {EndpointKey(ip, endpoint) : endpoint \in Endpoints}

(* The step leaves everything stored for ip as it was. *)
Untouched(ip) ==
    /\ (ip \in DOMAIN blocked_ips) = (ip \in DOMAIN blocked_ips')
    /\ ip \in DOMAIN blocked_ips => blocked_ips'[ip] = blocked_ips[ip]
    /\ (ip \in DOMAIN ip_buckets) = (ip \in DOMAIN ip_buckets')
    /\ ip \in DOMAIN ip_buckets => ip_buckets'[ip] = ip_buckets[ip]
    /\ \A key \in KeysOf(ip) :
          /\ (key \in DOMAIN request_history) = (key \in DOMAIN request_history')
          /\ key \in DOMAIN request_history
                => request_history'[key] = request_history[key]

(* C13, as claimed: reset_ip(i) leaves the block entry, the bucket, the    *)
(* history and the windows of every other identity j as they were, also    *)
(* of a j whose identifier contains i's.                                   *)
C13_ResetFrame ==
    [][\A i \in IPs, j \in IPs : (i # j /\ ResetIp(i)) => Untouched(j)]_vars

----------------------------------------------------------------------------
(* C14, as claimed: reset_ip of an identity that has never made a request  *)
(* succeeds and leaves the blocklist, the buckets, the histories and the   *)
(* windows as they were.                                                   *)
C14_ResetUnseen ==
    [][\A ip \in IPs :
          (ip \notin stats.unique_ips /\ ResetIp(ip))
              => /\ last'.allowed
                 /\ UNCHANGED <<unswept, blocked_ips, ip_buckets, request_history>>]_vars

----------------------------------------------------------------------------
(* C15, as claimed: no check_rate_limit call of a worker thread raises. *)
C15_NeverRaises ==
    \A t \in Threads : threads[t].pc # "raised"

(* C16: under every interleaving of the threads' calls, the requests a     *)
(* bucket has admitted and the tokens it holds never exceed its capacity   *)
(* plus what the refills added, and _get_ip_bucket leaves a bucket that    *)
(* exists in place, so that concurrent calls of one identity share it.     *)
C16_AtomicConsume ==
    [][/\ \A ip \in DOMAIN ip_buckets' :
             consumed'[ip] * TokenUnit + ip_buckets'[ip].tokens
                 <= ip_buckets'[ip].capacity * TokenUnit
                        + ip_buckets'[ip].last_refill * ip_buckets'[ip].refill_rate
       /\ \A t \in Threads :
             (GetBucket(t) /\ threads[t].ip \in DOMAIN ip_buckets)
                 => ip_buckets' = ip_buckets]_vars

(* Two calls of one identity were at the bucket together, before any       *)
(* refill: the bucket has admitted its capacity, the one call took the     *)
(* last token and the other was rejected.                                  *)
C16_Witness ==
    /\ now = 0
    /\ consumed[IpA] = config.ip_burst
    /\ ip_buckets[IpA].tokens = 0
    /\ \E t, u \in Threads :
          /\ threads[t].pc = "record_ok"
          /\ threads[u].pc = "record_fail"
          /\ threads[t].ip = IpA
          /\ threads[u].ip = IpA

(* C17, as claimed: under every interleaving of the threads' calls, no     *)
(* more than L calls of one (identity, endpoint) have passed the window    *)
(* within the trailing minute.                                             *)
C17_AtomicWindow ==
    \A endpoint \in Endpoints :
        Limit(endpoint) # NoLimit
            => \A ip \in IPs :
                  Cardinality(DOMAIN admits[EndpointKey(ip, endpoint)]) <= Limit(endpoint)

----------------------------------------------------------------------------
Denials(st) == st.blocked_requests + st.rate_limited_requests

(* C18, as claimed: every denied call adds one to exactly one of the two   *)
(* deny counters and every allowed call adds nothing, so that the sum of   *)
(* the counters is the number of denials.                                  *)
C18_DeniesCounted ==
    [][\A ip \in IPs, endpoint \in Endpoints :
          Checked(ip, endpoint)
              => /\ Denials(stats') = Denials(stats) + (IF last'.allowed THEN 0 ELSE 1)
                 /\ stats'.blocked_requests >= stats.blocked_requests
                 /\ stats'.rate_limited_requests >= stats.rate_limited_requests]_vars

----------------------------------------------------------------------------
(* get_stats, as it reads the stores at the time of the call. *)
GetStats ==
    [total_requests |-> stats.total_requests,
     blocked_requests |-> stats.blocked_requests,
     rate_limited_requests |-> stats.rate_limited_requests,
     unique_ips |-> Cardinality(stats.unique_ips),
     currently_blocked_ips |-> Cardinality(DOMAIN blocked_ips),
     active_buckets |-> Cardinality(DOMAIN ip_buckets),
     config |-> [ip_rate_limit |-> config.ip_rate_limit,
                 ip_burst |-> config.ip_burst,
                 block_threshold |-> config.block_threshold,
                 block_duration |-> config.block_duration]]

(* C19, as claimed: at any time, currently_blocked_ips is the number of    *)
(* identities whose block has not expired, those a request of which would  *)
(* now be denied as blocked.                                               *)
C19_CurrentlyBlocked ==
    GetStats.currently_blocked_ips
        = Cardinality({ip \in IPs : IsBlocked(blocked_ips, ip, now).blocked})

----------------------------------------------------------------------------
(* C20, as claimed: a call that reads a clock value earlier than the       *)
(* bucket's last_refill refills nothing and takes nothing but the token    *)
(* it consumes, and leaves the tokens within [0, capacity].                *)
C20_RegressionClamped ==
    [][\A ip \in IPs, endpoint \in Endpoints :
          (/\ Checked(ip, endpoint)
           /\ ip \in DOMAIN ip_buckets
           /\ now < ip_buckets[ip].last_refill)
              => /\ ip_buckets'[ip].tokens
                        \in {ip_buckets[ip].tokens, ip_buckets[ip].tokens - TokenUnit}
                 /\ 0 <= ip_buckets'[ip].tokens
                 /\ ip_buckets'[ip].tokens <= ip_buckets'[ip].capacity * TokenUnit]_vars

----------------------------------------------------------------------------
(* C21, as claimed: an engine constructed from a malformed or unreadable   *)
(* configuration source evaluates no request.                              *)
C21_FatalOnBadSource ==
    [][(last.op = "__init__" /\ last.reason \in {"malformed", "unreadable"})
          => \A ip \in IPs, endpoint \in Endpoints : ~Checked(ip, endpoint)]_vars

----------------------------------------------------------------------------
(* The time of the entry appended last to the queue under key. *)
NewestEntry(hist, key) ==
    LET q == hist[key].items
    IN  IF HoldsRecords(key) THEN q[Len(q)].time ELSE q[Len(q)]

(* C22, as claimed: a pass of the cleanup leaves no queue, of records or   *)
(* of a window, whose newest entry is older than the retention horizon.    *)
C22_NoStaleQueue ==
    [][Cleanup
          => \A key \in DOMAIN request_history' :
                request_history'[key].items # <<>>
                    => NewestEntry(request_history', key) >= now - Retention]_vars

----------------------------------------------------------------------------
(* C23: a call denied for a block or by the pattern detection changes no   *)
(* history, no window and no bucket; a call denied by the endpoint's quota *)
(* appends no record and nothing to the window, and takes no token: the    *)
(* identity's bucket stays as it was, or is created full.                  *)
C23_DenyShortCircuits ==
    [][\A ip \in IPs, endpoint \in Endpoints :
          Checked(ip, endpoint)
              => /\ last'.reason \in {ReasonBlocked(ip), ReasonPattern}
                       => UNCHANGED <<unswept, request_history, ip_buckets>>
                 /\ last'.reason = ReasonEndpoint(endpoint)
                       => /\ HistoryOf(request_history', ip) = HistoryOf(request_history, ip)
                          /\ EndpointKey(ip, endpoint) \in DOMAIN request_history
                          /\ Len(request_history'[EndpointKey(ip, endpoint)].items)
                                 <= Len(request_history[EndpointKey(ip, endpoint)].items)
                          /\ ip_buckets'[ip] =
                                 IF ip \in DOMAIN ip_buckets THEN ip_buckets[ip]
                                 ELSE NewBucket(config.ip_burst, config.ip_rate_limit, now)]_vars

(* The pattern detection has denied a request of an identity whose bucket  *)
(* held a token for it, and blocked the identity.                          *)
C23_Witness ==
    /\ last.ip = IpA
    /\ last.reason = ReasonPattern
    /\ BlockInForce(IpA)
    /\ IpA \in DOMAIN ip_buckets
    /\ TokensNow(IpA) >= TokenUnit

----------------------------------------------------------------------------
(* The call was rejected by the token bucket. *)
BucketRejected(ip) == last'.reason \in {ReasonSlowDown, ReasonExcessive(ip)}

(* C24: a consume call that returns False leaves in the bucket what the    *)
(* refill made of it, min(capacity, tokens + elapsed * refill_rate), with  *)
(* nothing subtracted.                                                     *)
C24_RejectTakesNothing ==
    [][\A ip \in IPs, endpoint \in Endpoints :
          (Checked(ip, endpoint) /\ BucketRejected(ip))
              => /\ ip \in DOMAIN ip_buckets
                 /\ ip_buckets'[ip].tokens =
                        Min(ip_buckets[ip].capacity * TokenUnit,
                            ip_buckets[ip].tokens
                                + (now - ip_buckets[ip].last_refill)
                                      * ip_buckets[ip].refill_rate)]_vars

(* A call was rejected by a bucket that the refill had brought to a        *)
(* fraction of a token, which it kept.                                     *)
C24_Witness ==
    /\ last.ip = IpA
    /\ last.reason = ReasonSlowDown
    /\ IpA \in DOMAIN ip_buckets
    /\ ip_buckets[IpA].last_refill = now
    /\ ip_buckets[IpA].tokens > 0
    /\ ip_buckets[IpA].tokens < TokenUnit

----------------------------------------------------------------------------
(* C25: a check_rate_limit call of a whitelisted identity changes nothing: *)
(* no bucket, history, window queue or blocklist entry, and no field of    *)
(* the statistics.                                                         *)
C25_WhitelistedTouchesNothing ==
    [][\A ip \in whitelist, endpoint \in Endpoints :
          CheckRateLimit(ip, endpoint)
              => UNCHANGED <<unswept, ip_buckets, request_history, blocked_ips, stats>>]_vars

----------------------------------------------------------------------------
(* C26: _is_blocked, asked about any identity at any time, changes the     *)
(* expiry of no entry: it answers whether the identity's block is in       *)
(* force, removes the identity's own entry when that entry has expired,    *)
(* and leaves every other entry as it was.                                 *)
C26_PresenceCheckFrame ==
    \A ip \in IPs :
        LET r == IsBlocked(blocked_ips, ip, now)
            expired == ip \in DOMAIN blocked_ips /\ now >= blocked_ips[ip]
        IN  /\ r.blocked = BlockInForce(ip)
            /\ DOMAIN r.map = IF expired THEN DOMAIN blocked_ips \ {ip}
                                         ELSE DOMAIN blocked_ips
            /\ \A k \in DOMAIN r.map : r.map[k] = blocked_ips[k]

(* One identity's block has expired while the other's is in force. *)
C26_Witness ==
    /\ IpA \in DOMAIN blocked_ips /\ now >= blocked_ips[IpA]
    /\ BlockInForce(IpB)
    /\ IsBlocked(blocked_ips, IpA, now).map = (IpB :> blocked_ips[IpB])
    /\ IsBlocked(blocked_ips, IpB, now).blocked

----------------------------------------------------------------------------
(* The step puts ip on the blocklist, or sets its entry to a new expiry. *)
Enters(ip) ==
    /\ ip \in DOMAIN blocked_ips'
    /\ ip \notin DOMAIN blocked_ips \/ blocked_ips'[ip] # blocked_ips[ip]

(* The records of ip's history, as the step leaves it, of the last minute. *)
RecordedMinute(ip) ==
    {k \in 1..Len(HistoryOf(request_history', ip)) :
        HistoryOf(request_history', ip)[k].time > now - MinuteWindow}

(* C27: an identity enters the blocklist only in a check_rate_limit call   *)
(* of that identity that is denied, and then either the pattern detection  *)
(* tripped on its history, or its bucket rejected the request and its      *)
(* records of the last minute, this one included, exceed block_threshold;  *)
(* the first request of an identity never seen before does not block it.   *)
C27_BlockOnlyByEscalation ==
    [][\A ip \in IPs :
          /\ Enters(ip)
                => \E endpoint \in Endpoints :
                      /\ Checked(ip, endpoint)
                      /\ ~last'.allowed
                      /\ \/ /\ last'.reason = ReasonPattern
                            /\ DetectAttackPattern(request_history, config, ip,
                                                   endpoint, now)
                         \/ /\ last'.reason = ReasonExcessive(ip)
                            /\ ip \in DOMAIN ip_buckets
                            /\ TokensNow(ip) < TokenUnit
                            /\ Cardinality(RecordedMinute(ip)) > config.block_threshold
          /\ (/\ ip \notin stats.unique_ips
              /\ \E endpoint \in Endpoints : Checked(ip, endpoint))
                => ip \notin DOMAIN blocked_ips']_vars

(* One identity has just been blocked by the threshold, in its own call,   *)
(* while the other, seen as well, is on no blocklist.                      *)
C27_Witness ==
    /\ last.ip = IpA
    /\ last.reason = ReasonExcessive(IpA)
    /\ BlockInForce(IpA)
    /\ IpB \in stats.unique_ips
    /\ IpB \notin DOMAIN blocked_ips

----------------------------------------------------------------------------
(* ip is on the blocklist with an expiry that has been reached. *)
BlockExpired(ip) == ip \in DOMAIN blocked_ips /\ now >= blocked_ips[ip]

(* What the quota and the bucket make of the request of an identity that   *)
(* is on no blocklist.                                                     *)
NeverBlocked(ip, endpoint) ==
    EndpointStep(ip, endpoint, <<>>,
                 [stats EXCEPT !.total_requests = @ + 1, !.unique_ips = @ \cup {ip}])

(* C28: a check_rate_limit call of an identity whose block has expired     *)
(* (now >= expiry) is not denied for being blocked; its entry is deleted,  *)
(* and the pattern detection, the quota and the bucket decide it as they   *)
(* decide the request of an identity that is on no blocklist, which may    *)
(* block it anew.                                                          *)
C28_ExpiredBlockLifted ==
    [][\A ip \in IPs, endpoint \in Endpoints :
          (Checked(ip, endpoint) /\ BlockExpired(ip))
              => /\ last'.reason # ReasonBlocked(ip)
                 /\ stats'.blocked_requests = stats.blocked_requests
                 /\ IF /\ config.enable_pattern_detection
                       /\ DetectAttackPattern(request_history, config, ip, endpoint, now)
                    THEN /\ ~last'.allowed
                         /\ last'.reason = ReasonPattern
                         /\ blocked_ips' = (ip :> now + config.block_duration)
                                               @@ Without(blocked_ips, {ip})
                         /\ UNCHANGED <<unswept, ip_buckets, request_history>>
                    ELSE /\ last'.allowed = NeverBlocked(ip, endpoint).allowed
                         /\ last'.reason = NeverBlocked(ip, endpoint).reason
                         /\ ip_buckets' = NeverBlocked(ip, endpoint).ip_buckets
                         /\ request_history' = NeverBlocked(ip, endpoint).request_history
                         /\ stats' = NeverBlocked(ip, endpoint).stats
                         /\ blocked_ips' = NeverBlocked(ip, endpoint).blocked_ips
                                               @@ Without(blocked_ips, {ip})]_vars

(* A request has found its sender's block expired, deleted the entry and   *)
(* been allowed.                                                           *)
C28_Witness ==
    /\ last.purged
    /\ last.ip = IpA
    /\ last.allowed
    /\ IpA \notin DOMAIN blocked_ips
    /\ HistoryOf(request_history, IpA) # <<>>
    /\ HistoryOf(request_history, IpA)[Len(HistoryOf(request_history, IpA))].time = now

----------------------------------------------------------------------------
(* h1 is h with record appended, the oldest record dropped when h was at   *)
(* the deque's capacity.                                                   *)
Appended(h, h1, record) ==
    /\ Len(h1) = Min(HistoryCap, Len(h) + 1)
    /\ h1[Len(h1)] = record
    /\ \A k \in 1..(Len(h1) - 1) : h1[k] = h[k + Len(h) + 1 - Len(h1)]

(* C29: a request that the token bucket rejects is appended to its         *)
(* sender's history as [time, endpoint], the record an admitted request    *)
(* leaves, and the threshold is checked on the history that holds it: the  *)
(* sender is blocked exactly when its records of the last minute, this one *)
(* included, exceed block_threshold.                                       *)
C29_RejectedIsRecorded ==
    [][\A ip \in IPs, endpoint \in Endpoints :
          (Checked(ip, endpoint) /\ BucketRejected(ip))
              => /\ Appended(HistoryOf(request_history, ip),
                             HistoryOf(request_history', ip),
                             [time |-> now, endpoint |-> endpoint])
                 /\ (last'.reason = ReasonExcessive(ip))
                       <=> (Cardinality(RecordedMinute(ip)) > config.block_threshold)
                 /\ (last'.reason = ReasonExcessive(ip))
                       <=> (ip \in DOMAIN blocked_ips'
                             /\ blocked_ips'[ip] = now + config.block_duration)]_vars

(* The rejected attempt is the newest record of its sender's history, and  *)
(* it is the one that took the count over the threshold.                   *)
C29_Witness ==
    /\ last.ip = IpA
    /\ last.reason = ReasonExcessive(IpA)
    /\ Cardinality(Recent(IpA, MinuteWindow)) = config.block_threshold + 1
    /\ HistoryOf(request_history, IpA)[Len(HistoryOf(request_history, IpA))]
          = [time |-> now, endpoint |-> last.endpoint]

----------------------------------------------------------------------------
(* The three heuristics, each a condition on ip's recorded history alone. *)
BurstHolds(ip) == Cardinality(Recent(ip, BurstWindow)) > config.burst_threshold

SlowHolds(ip) ==
    Cardinality({k \in Recent(ip, MinuteWindow) :
                    HistoryOf(request_history, ip)[k].endpoint \in SlowEndpoints})
        > SlowThreshold

ScanHolds(ip) == Cardinality(RecentEndpoints(ip, ScanWindow)) > ScanThreshold

(* C30: _detect_attack_pattern returns True exactly when at least one of   *)
(* the three heuristics holds on the identity's history, whichever         *)
(* endpoint the current request is for.                                    *)
C30_VerdictFromHistory ==
    \A ip \in IPs, endpoint \in Endpoints :
        DetectAttackPattern(request_history, config, ip, endpoint, now)
            <=> (BurstHolds(ip) \/ SlowHolds(ip) \/ ScanHolds(ip))

----------------------------------------------------------------------------
(* C31: under the built-in settings, an identity that has sent more than   *)
(* the slow-drip count of requests to the expensive resources within the   *)
(* last minute is on the blocklist.  In SpecSlow every request is the      *)
(* identity's and for an expensive resource, and before the first minute   *)
(* is over all of them are of the last minute.                             *)
C31_SlowDripBlocks ==
    (now < MinuteWindow /\ stats.total_requests > SlowThreshold)
        => BlockInForce(IpA)

----------------------------------------------------------------------------
(* C32: under the built-in settings, a request that the bucket rejects     *)
(* when its sender has made more than block_threshold requests within the  *)
(* last minute, this one included, puts the sender on the blocklist.  In   *)
(* SpecSustained every request is the identity's, and before the first     *)
(* minute is over all of them are of the last minute.                      *)
C32_SustainedBlocks ==
    [][(/\ Checked(IpA, Status)
        /\ BucketRejected(IpA)
        /\ now < MinuteWindow
        /\ stats'.total_requests > config.block_threshold)
           => /\ last'.reason = ReasonExcessive(IpA)
              /\ IpA \in DOMAIN blocked_ips']_vars

----------------------------------------------------------------------------
(* C33: no queue of request_history is ever longer than its cap: an        *)
(* identity's history holds at most HistoryCap records, and the window     *)
(* queue of an endpoint with limit L at most L timestamps, whatever the    *)
(* interleaving of the threads' calls.                                     *)
C33_WithinCap ==
    /\ \A ip \in IPs : Len(HistoryOf(request_history, ip)) <= HistoryCap
    /\ \A ip \in IPs, endpoint \in Endpoints :
          EndpointKey(ip, endpoint) \in DOMAIN request_history
              => Len(request_history[EndpointKey(ip, endpoint)].items) <= Limit(endpoint)

(* Two threads have both passed the window's test before either appended:  *)
(* more timestamps have been appended within the minute than the limit,    *)
(* and the queue holds the limit.                                          *)
C33_Witness ==
    /\ EndpointKey(IpA, Search) \in DOMAIN request_history
    /\ Len(admits[EndpointKey(IpA, Search)]) > Limit(Search)
    /\ Len(request_history[EndpointKey(IpA, Search)].items) = Limit(Search)

----------------------------------------------------------------------------
NonDecreasing(times) ==
    \A k \in 1..(Len(times) - 1) : times[k] <= times[k + 1]

(* The timestamps of a queue, front to back. *)
TimesOf(key) ==
    IF HoldsRecords(key)
    THEN [k \in 1..Len(request_history[key].items) |-> request_history[key].items[k].time]
    ELSE request_history[key].items

(* C34: in every queue of request_history the timestamps are non-          *)
(* decreasing from front to back, whatever the interleaving of the         *)
(* threads' calls.                                                         *)
C34_QueuesOrdered ==
    \A key \in DOMAIN request_history : NonDecreasing(TimesOf(key))

----------------------------------------------------------------------------
(* The check_rate_limit calls that have returned. *)
Completed == Cardinality({t \in Threads : threads[t].pc = "returned"})

(* C35: when no call is in progress, total_requests is the number of calls *)
(* that have completed, whatever the interleaving of the threads.          *)
C35_NoLostUpdate ==
    (\A t \in Threads : threads[t].pc # "counting")
        => stats.total_requests = Completed

----------------------------------------------------------------------------
(* C36: the cleanup thread never ends, whatever calls are made while it    *)
(* is in its pass.                                                         *)
C36_ReclaimerKeepsRunning == threads[Reclaimer].pc # "dead"


(* C37: every decision returned so far is the decision, allowed and        *)
(* reason, that the engine whose cleanup thread never runs returns for the *)
(* same call at the same clock value.                                      *)
C37_CleanupChangesNoDecision == unswept.same


(* The thread is at the head of a `with` block whose lock another holds. *)
WaitsFor(t, lock) ==
    /\ lock \notin threads[t].held
    /\ Holder(lock) # {}
    /\ \/ lock = BlockedIpsLock
          /\ threads[t].pc \in {"_is_blocked", "_block_ip", "reset_ip", "cleanup.expired"}
       \/ lock = IpBucketsLock
          /\ threads[t].pc \in {"_get_ip_bucket", "reset_ip.between", "cleanup.between"}
       \/ lock = BucketLock(threads[t].ip) /\ threads[t].pc = "consume"

Waiting(t) == \E lock \in Locks : WaitsFor(t, lock)

(* C38: no thread holds more than one lock, a lock has one holder at most, *)
(* a thread that waits for a lock waits for a thread that waits for none   *)
(* (no deadlock), and a thread that holds a lock gives it back.            *)
C38_OneLockAtATime ==
    /\ [](\A t \in LockUsers :
             /\ Cardinality(threads[t].held) <= 1
             /\ \A lock \in Locks :
                   /\ Cardinality(Holder(lock)) <= 1
                   /\ WaitsFor(t, lock) => \A u \in Holder(lock) : ~Waiting(u))
    /\ \A t \in LockUsers : (threads[t].held # {}) ~> (threads[t].held = {})

(* The three kinds of lock held at once by three threads, the fourth       *)
(* waiting for one of them.                                                *)
C38_Witness ==
    /\ Holder(BlockedIpsLock) # {}
    /\ Holder(IpBucketsLock) # {}
    /\ \E ip \in LockIPs : Holder(BucketLock(ip)) # {}
    /\ \E t \in LockUsers : Waiting(t)


(* C39: while the block of an identity is in force, no step moves its      *)
(* expiry to a later instant.                                              *)
C39_BlockNeverExtended ==
    [][\A ip \in IPs :
          (BlockInForce(ip) /\ ip \in DOMAIN blocked_ips')
              => blocked_ips'[ip] <= blocked_ips[ip]]_vars

============================================================================
